---- MODULE Spec2Model ----
(***************************************************************************)
(* Model of psidata/abr.py: the persistent call cache (cache), the         *)
(* rejection filter (ABRFile._apply_reject), Recording construction        *)
(* (ABRFile.__init__), the superset aggregator (ABRSupersetFile) and the   *)
(* loader (load, is_abr_experiment).                                       *)
(***************************************************************************)
EXTENDS Integers, Sequences, FiniteSets, TLC

VARIABLES
    epochs,            \* the table handed to _apply_reject (rows of samples)
    reject_threshold,  \* the reject_threshold argument of _apply_reject
    reject_mode,       \* the reject_mode argument of _apply_reject
    erp_row,           \* self.erp_metadata.loc[0] of the Recording, or NoRow
    rejected,          \* outcome of _apply_reject, Pending before the call
    cache_dir,         \* whether base_path / 'cache' exists
    cache,             \* the .pkl files of the cache directory, by file name
    invocations,       \* how many times a wrapped operation f has been invoked
    calls,             \* how many wrapper calls have been made
    last,              \* the latest wrapper call and how it ended
    folder,            \* the storage location handed to load / from_folder
    inst,              \* what construction gave: a Recording, a Superset, an error
    fanned,            \* the constituent calls made by the latest fan-out
    merged,            \* what the latest fan-out returned or raised
    request            \* the operation and arguments of the latest fan-out

rejectVars == <<epochs, reject_threshold, reject_mode, rejected>>
cacheVars == <<cache_dir, cache, invocations, calls, last>>
supersetVars == <<folder, inst, fanned, merged, request>>
vars == <<epochs, reject_threshold, reject_mode, erp_row, rejected,
          cache_dir, cache, invocations, calls, last,
          folder, inst, fanned, merged, request>>

----------------------------------------------------------------------------
(* Python values.  A value is a pair <<type tag, payload>>.  np.inf is one  *)
(* particular float object; any other infinite float (float('inf'), a      *)
(* numpy float64 read out of a table) is a different object with the same  *)
(* value.                                                                  *)

PyNone == <<"none", 0>>
PyInt(n) == <<"int", n>>
PyStr(s) == <<"str", s>>
PyF64(r) == <<"f64", r>>
PyF32(r) == <<"f32", r>>
NpInf == <<"npinf", 0>>
OtherInf == <<"inf", 0>>

\* Python's `a is np.inf`
IsNpInf(v) == v = NpInf

\* the value is an infinite float, whatever object carries it
IsInfinite(v) == v[1] \in {"npinf", "inf"}

----------------------------------------------------------------------------
(* Samples of an EpochTable: float64 cells of a DataFrame.                 *)

Fin(n) == <<"fin", n>>
NaN == <<"nan", 0>>
PosInf == <<"pinf", 0>>

Pending == [err |-> "pending", keep |-> <<>>]
NoRow == [absent |-> TRUE]
Absent == <<"absent", 0>>

\* row.get('reject_mode', 'absolute')
RowRejectMode(row) ==
    IF row.reject_mode = Absent THEN PyStr("absolute") ELSE row.reject_mode

\* faulty variant of SampleLess: cell <= reject_threshold
SampleLessOrEqual(x, t) ==
    CASE x[1] = "nan" -> FALSE
      [] x[1] = "pinf" -> FALSE
      [] x[1] = "fin" -> IF IsInfinite(t) THEN TRUE ELSE x[2] <= t[2]

\* cell < reject_threshold, as numpy evaluates it for a numeric threshold
SampleLess(x, t) ==
    CASE x[1] = "nan" -> FALSE
      [] x[1] = "pinf" -> FALSE
      [] x[1] = "fin" -> IF IsInfinite(t) THEN TRUE ELSE x[2] < t[2]

\* result.dropna(): positions of the rows holding no missing sample
DropNa(table) ==
    SelectSeq([i \in 1..Len(table) |-> i],
              LAMBDA i : \A c \in DOMAIN table[i] : table[i][c][1] # "nan")

\* (result < reject_threshold).all(axis=1); result.loc[m]
AbsoluteMask(table, rows, t) ==
    SelectSeq(rows, LAMBDA i : \A c \in DOMAIN table[i] : SampleLess(table[i][c], t))

\* faulty variant of RejectBlock: the amplitude branch falls back to the absolute mask
RejectBlockAmplitudeAsAbsolute(table, rows, t, mode) ==
    IF ~IsNpInf(t)
    THEN CASE mode \in {PyStr("absolute"), PyStr("amplitude")} ->
                  [err |-> "none", keep |-> AbsoluteMask(table, rows, t)]
           [] OTHER -> [err |-> "none", keep |-> rows]
    ELSE [err |-> "none", keep |-> rows]

\* the `if reject_threshold is not np.inf:` block
RejectBlock(table, rows, t, mode) ==
    IF ~IsNpInf(t)
    THEN CASE mode = PyStr("absolute") ->
                  [err |-> "none", keep |-> AbsoluteMask(table, rows, t)]
           [] mode = PyStr("amplitude") ->
                  [err |-> "NotImplementedError", keep |-> <<>>]
           [] OTHER -> [err |-> "none", keep |-> rows]
    ELSE [err |-> "none", keep |-> rows]

\* faulty variant of ApplyReject: the fallback takes the threshold from the metadata
\* but keeps the caller's reject_mode
ApplyRejectKeepsModeArgument(table, t, mode, row) ==
    LET rows == DropNa(table) IN
    IF t = PyNone
    THEN IF row = NoRow
         THEN [err |-> "KeyError", keep |-> <<>>]
         ELSE RejectBlock(table, rows, row.reject_threshold, mode)
    ELSE RejectBlock(table, rows, t, mode)

\* ABRFile._apply_reject: the outcome is an error, or the positions (in the
\* input table, in order) of the rows of the returned table
ApplyReject(table, t, mode, row) ==
    LET rows == DropNa(table) IN
    IF t = PyNone
    THEN IF row = NoRow
         THEN [err |-> "KeyError", keep |-> <<>>]
         ELSE RejectBlock(table, rows, row.reject_threshold, RowRejectMode(row))
    ELSE RejectBlock(table, rows, t, mode)

----------------------------------------------------------------------------
(* The persistent call cache: cache(f) and its wrapper.                    *)

Required == <<"required", 0>>
Param(name, default) == [name |-> name, default |-> default]

\* inspect.signature(f) without self, for the four wrapped operations
Params(op) ==
    CASE op = "get_epochs" ->
           <<Param("offset", PyInt(0)), Param("duration", PyF64("0.0085")),
             Param("detrend", PyStr("constant")),
             Param("reject_threshold", PyNone),
             Param("reject_mode", PyStr("absolute")),
             Param("columns", PyStr("auto"))>>
      [] op = "get_random_segments" ->
           <<Param("n", Required),
             Param("offset", PyInt(0)), Param("duration", PyF64("0.0085")),
             Param("detrend", PyStr("constant")),
             Param("reject_threshold", PyNone),
             Param("reject_mode", PyStr("absolute"))>>
      [] op = "get_epochs_filtered" ->
           <<Param("filter_lb", PyInt(300)), Param("filter_ub", PyInt(3000)),
             Param("filter_order", PyInt(1)),
             Param("offset", PyF64("-0.001")), Param("duration", PyF64("0.01")),
             Param("detrend", PyStr("constant")),
             Param("pad_duration", PyF64("0.01")),
             Param("reject_threshold", PyNone),
             Param("reject_mode", PyStr("absolute")),
             Param("columns", PyStr("auto"))>>
      [] op = "get_random_segments_filtered" ->
           <<Param("n", Required),
             Param("filter_lb", PyInt(300)), Param("filter_ub", PyInt(3000)),
             Param("filter_order", PyInt(1)),
             Param("offset", PyF64("-0.001")), Param("duration", PyF64("0.01")),
             Param("detrend", PyStr("constant")),
             Param("pad_duration", PyF64("0.01")),
             Param("reject_threshold", PyNone),
             Param("reject_mode", PyStr("absolute"))>>

Ops == {"get_epochs", "get_random_segments", "get_epochs_filtered",
        "get_random_segments_filtered"}

\* str(v), which is what f'{v}' renders: a float prints its shortest repr
\* whatever its width, a string prints bare, None prints "None"
Str(v) ==
    CASE v[1] = "none" -> "None"
      [] v[1] = "int" -> ToString(v[2])
      [] v[1] \in {"str", "f64", "f32"} -> v[2]
      [] v[1] \in {"npinf", "inf"} -> "inf"

KwNames(kw) == {p[1] : p \in kw}
KwValue(kw, name) == (CHOOSE p \in kw : p[1] = name)[2]

\* s.bind(self, *args, **kwargs) raises TypeError
BindFails(op, pos, kw) ==
    LET ps == Params(op) IN
    \/ Len(pos) > Len(ps)
    \/ \E name \in KwNames(kw) : \A i \in 1..Len(ps) : ps[i].name # name
    \/ \E i \in 1..Len(ps) : i <= Len(pos) /\ ps[i].name \in KwNames(kw)
    \/ \E i \in 1..Len(ps) :
           /\ i > Len(pos)
           /\ ps[i].default = Required
           /\ ps[i].name \notin KwNames(kw)

\* s.bind(...) then apply_defaults(): the value of every parameter, in the
\* order of the signature
BindArguments(op, pos, kw) ==
    LET ps == Params(op) IN
    [i \in 1..Len(ps) |->
        IF i <= Len(pos) THEN pos[i]
        ELSE IF ps[i].name \in KwNames(kw) THEN KwValue(kw, ps[i].name)
        ELSE ps[i].default]

RECURSIVE JoinParams(_, _, _)
\* ', '.join(f'{k}={v}' for k, v in iterable if k != 'self'), from item i on
JoinParams(ps, bound, i) ==
    IF i > Len(ps) THEN ""
    ELSE ps[i].name \o "=" \o Str(bound[i])
         \o (IF i < Len(ps) THEN ", " ELSE "")
         \o JoinParams(ps, bound, i + 1)

\* file_name = f'{name} {file_params}.pkl'
FileName(op, bound) == op \o " " \o JoinParams(Params(op), bound, 1) \o ".pkl"

\* the files of the cache directory: each holds a pickled result, here the
\* number of the invocation that produced it, and (for the properties) the
\* operation and effective arguments of the call that wrote it
Exists(files, name) == \E e \in files : e.file_name = name
Read(files, name) == CHOOSE e \in files : e.file_name = name

\* faulty variant of Lookup: an existing entry is used even when a refresh is asked
LookupIgnoresRefresh(refresh_cache, files, name) == Exists(files, name)

\* `not refresh_cache and cache_file.exists()`
Lookup(refresh_cache, files, name) == ~refresh_cache /\ Exists(files, name)

ArgumentOf(op, bound, name) ==
    bound[CHOOSE i \in 1..Len(Params(op)) : Params(op)[i].name = name]

\* f(self, *args, **kwargs) raises: every wrapped operation ends in
\* self._apply_reject(result, reject_threshold, reject_mode), whose error
\* does not depend on the extracted table
OperationRaises(op, bound, row) ==
    ApplyReject(<<>>, ArgumentOf(op, bound, "reject_threshold"),
                ArgumentOf(op, bound, "reject_mode"), row).err # "none"

\* result.to_pickle(cache_file): the file is created or overwritten
Pickle(files, name, result, by) ==
    {e \in files : e.file_name # name}
        \cup {[file_name |-> name, result |-> result, by |-> by]}

\* faulty variant of Store: the entry is written although f raised
StoreEvenIfRaised(files, name, raised, result, by) ==
    Pickle(files, name, result, by)

\* `result = f(...); result.to_pickle(cache_file)`: the files afterwards
Store(files, name, raised, result, by) ==
    IF raised THEN files ELSE Pickle(files, name, result, by)

MaxCalls == 3
PosChoices == {<<>>, <<PyInt(0)>>}
KwChoices ==
    {{},
     {<<"n", PyInt(0)>>},
     {<<"offset", PyF64("0.001")>>},
     {<<"offset", PyF32("0.001")>>},
     {<<"reject_threshold", NpInf>>, <<"reject_mode", PyStr("amplitude")>>},
     {<<"reject_threshold", OtherInf>>, <<"reject_mode", PyStr("amplitude")>>}}
Invocations == [op : Ops, pos : PosChoices, kw : KwChoices, refresh_cache : BOOLEAN]
RecordingRows ==
    [reject_threshold : {PyInt(2)}, reject_mode : {Absent, PyStr("amplitude")}]

RECURSIVE Enumerate(_)
\* the elements of a finite set, one after the other
Enumerate(S) ==
    IF S = {} THEN <<>>
    ELSE LET x == CHOOSE y \in S : TRUE IN <<x>> \o Enumerate(S \ {x})

\* lines 42-46 of the wrapper for every call of the model: whether binding
\* fails and, when it does not, the bound arguments and the file name
Resolve(c) ==
    IF BindFails(c.op, c.pos, c.kw)
    THEN [op |-> c.op, refresh_cache |-> c.refresh_cache,
          fails |-> TRUE, bound |-> <<>>, file_name |-> ""]
    ELSE LET bound == BindArguments(c.op, c.pos, c.kw)
         IN  [op |-> c.op, refresh_cache |-> c.refresh_cache,
              fails |-> FALSE, bound |-> bound,
              file_name |-> FileName(c.op, bound)]

\* the calls of the model with their resolution, indexed
Resolved == Enumerate({[call |-> c, as |-> Resolve(c)] : c \in Invocations})

NoCall == [op |-> "", bound |-> <<>>, file_name |-> "", refresh_cache |-> FALSE,
           outcome |-> "none", result |-> 0]

CacheIdle ==
    /\ cache_dir = FALSE
    /\ cache = {}
    /\ invocations = 0
    /\ calls = 0
    /\ last = NoCall

RejectIdle ==
    /\ epochs = <<>>
    /\ reject_threshold = PyNone
    /\ reject_mode = PyStr("absolute")
    /\ rejected = Pending

----------------------------------------------------------------------------
(* Recording construction, the superset aggregator and the loader.         *)

\* a directory entry: a plain file, or a directory with or without the eeg
\* array and the erp_metadata table (and, when it has the table, its rows)
File == [isdir |-> FALSE, eeg |-> FALSE, erp_metadata |-> FALSE, trials |-> 0]
Dir(eeg, meta, trials) ==
    [isdir |-> TRUE, eeg |-> eeg, erp_metadata |-> meta, trials |-> trials]

\* ABRFile.__init__: the error it raises, "none" when it returns
RecordingError(loc) ==
    IF ~loc.eeg THEN "ValueError: Missing eeg data"
    ELSE IF ~loc.erp_metadata THEN "ValueError: Missing erp metadata"
    ELSE "none"

\* what a constructor call gave; via and given record which constructor was
\* called and on which locations
NoInst == [kind |-> "none", fh |-> <<>>, error |-> "none"]
Raised(error) == [kind |-> "error", fh |-> <<>>, error |-> error]
Via(how, given, made) ==
    [kind |-> made.kind, fh |-> made.fh, error |-> made.error,
     via |-> how, given |-> given]

\* ABRFile(base_folder)
NewRecording(loc) ==
    IF RecordingError(loc) = "none"
    THEN [kind |-> "recording", fh |-> <<loc>>, error |-> "none"]
    ELSE Raised(RecordingError(loc))

\* faulty variant of NewSuperset: a location whose Recording construction fails is
\* left out
NewSupersetSkippingInvalid(locs) ==
    [kind |-> "superset",
     fh |-> SelectSeq(locs, LAMBDA loc : RecordingError(loc) = "none"),
     error |-> "none"]

\* ABRSupersetFile(*base_folders): one ABRFile per location, in order; the
\* first construction error propagates
NewSuperset(locs) ==
    IF \E i \in 1..Len(locs) : RecordingError(locs[i]) # "none"
    THEN Raised(RecordingError(
             locs[CHOOSE i \in 1..Len(locs) :
                      /\ RecordingError(locs[i]) # "none"
                      /\ \A j \in 1..(i - 1) : RecordingError(locs[j]) = "none"]))
    ELSE [kind |-> "superset", fh |-> locs, error |-> "none"]

\* ABRSupersetFile.from_folder(base_folder)
FromFolderOf(entries) == NewSuperset(SelectSeq(entries, LAMBDA e : e.isdir))

\* load(base_folder)
LoadOf(loc) ==
    IF loc.marker THEN NewRecording(loc.self) ELSE FromFolderOf(loc.entries)

RECURSIVE Concat(_, _)
\* pd.concat(result_set, keys=range(len(self._fh)), names=['file']), from the
\* i-th table on: every row under the ordinal of the table it comes from
Concat(result_set, i) ==
    IF i > Len(result_set) THEN <<>>
    ELSE [k \in 1..Len(result_set[i]) |-> [file |-> i - 1, row |-> result_set[i][k]]]
         \o Concat(result_set, i + 1)

\* pd.concat raises on an empty list of tables
ConcatOutcome(result_set) ==
    IF Len(result_set) = 0
    THEN [err |-> "ValueError: No objects to concatenate", rows |-> <<>>]
    ELSE [err |-> "none", rows |-> Concat(result_set, 1)]

\* the index of the first constituent whose call raises, 0 when none does
FirstRaising(outcomes) ==
    IF \E i \in 1..Len(outcomes) : outcomes[i].err # "none"
    THEN CHOOSE i \in 1..Len(outcomes) :
             /\ outcomes[i].err # "none"
             /\ \A j \in 1..(i - 1) : outcomes[j].err = "none"
    ELSE 0

\* getattr(fh, fn_name)(*args, **kwargs) for the i-th constituent, with what
\* it gave
ConstituentCall(i, fn_name, args, kwargs, refresh_cache, outcome) ==
    [fh |-> i, fn_name |-> fn_name, args |-> args, kwargs |-> kwargs,
     refresh_cache |-> refresh_cache, outcome |-> outcome]

\* the list comprehension of _merge_results: which constituents are called
CalledConstituents(outcomes) ==
    IF FirstRaising(outcomes) = 0 THEN Len(outcomes) ELSE FirstRaising(outcomes)

\* faulty variant of MergeOutcome: the tables are concatenated in reverse order
MergeOutcomeReversed(outcomes) ==
    IF FirstRaising(outcomes) # 0
    THEN [err |-> outcomes[FirstRaising(outcomes)].err, rows |-> <<>>]
    ELSE ConcatOutcome([i \in 1..Len(outcomes) |->
                            outcomes[Len(outcomes) + 1 - i].rows])

\* ABRSupersetFile._merge_results: the first error of a constituent
\* propagates, otherwise the tables are concatenated
MergeOutcome(outcomes) ==
    IF FirstRaising(outcomes) # 0
    THEN [err |-> outcomes[FirstRaising(outcomes)].err, rows |-> <<>>]
    ELSE ConcatOutcome([i \in 1..Len(outcomes) |-> outcomes[i].rows])

MaxEntries == 2
MaxTrials == 1
Locations ==
    {File, Dir(FALSE, FALSE, 0), Dir(FALSE, TRUE, 0), Dir(TRUE, FALSE, 0)}
        \cup {Dir(TRUE, TRUE, t) : t \in 0..MaxTrials}
Listings == UNION {[1..n -> Locations] : n \in 0..MaxEntries}
\* a location with the 'erp' marker is modelled by itself, one without by its
\* listing
Folders ==
    [marker : {TRUE}, self : Locations \ {File}, entries : {<<>>}]
        \cup [marker : {FALSE}, self : {Dir(FALSE, FALSE, 0)}, entries : Listings]

\* the table a constituent returns: rows 0..n-1 of that constituent
TableOf(i, n) == [k \in 1..n |-> [of |-> i, index |-> k - 1]]
NotFanned == [err |-> "pending", rows |-> <<>>]
FanKwChoices == {{}, {<<"n", PyInt(0)>>}}
NoRequest == [fn_name |-> "", args |-> <<>>, kwargs |-> {}, refresh_cache |-> FALSE]

\* the directories among the entries at the positions of keep, in order
DirectoriesAt(entries, keep) ==
    LET at == SelectSeq([i \in 1..Len(entries) |-> i],
                        LAMBDA i : i \in keep /\ entries[i].isdir)
    IN  [k \in 1..Len(at) |-> entries[at[k]]]

SupersetIdle ==
    /\ folder = [marker |-> FALSE, self |-> Dir(FALSE, FALSE, 0), entries |-> <<>>]
    /\ inst = NoInst
    /\ fanned = <<>>
    /\ merged = NotFanned
    /\ request = NoRequest

InitSuperset ==
    /\ folder \in Folders
    /\ inst = NoInst
    /\ fanned = <<>>
    /\ merged = NotFanned
    /\ request = NoRequest
    /\ erp_row = NoRow
    /\ RejectIdle
    /\ CacheIdle

SupersetFrame ==
    /\ UNCHANGED <<folder, erp_row>>
    /\ UNCHANGED rejectVars
    /\ UNCHANGED cacheVars

\* ABRSupersetFile.from_folder(base_folder)
FromFolder ==
    /\ inst = NoInst
    /\ ~folder.marker
    /\ inst' = Via("from_folder", folder.entries, FromFolderOf(folder.entries))
    /\ UNCHANGED <<fanned, merged, request>>
    /\ SupersetFrame

\* ABRSupersetFile(*base_folders) on a list of directories of the folder
FromList ==
    /\ inst = NoInst
    /\ ~folder.marker
    /\ \E keep \in SUBSET (1..Len(folder.entries)) :
           LET base_folders == DirectoriesAt(folder.entries, keep)
           IN  inst' = Via("list", base_folders, NewSuperset(base_folders))
    /\ UNCHANGED <<fanned, merged, request>>
    /\ SupersetFrame

\* load(base_folder)
Load ==
    /\ inst = NoInst
    /\ inst' = Via("load", folder.entries, LoadOf(folder))
    /\ UNCHANGED <<fanned, merged, request>>
    /\ SupersetFrame

\* is_abr_experiment(path)
IsAbrExperiment ==
    /\ inst = NoInst
    /\ inst' = Via("is_abr_experiment", folder.entries,
                    [kind |-> IF LoadOf(folder).kind = "error"
                              THEN "False" ELSE "True",
                     fh |-> <<>>, error |-> "none"])
    /\ UNCHANGED <<fanned, merged, request>>
    /\ SupersetFrame

\* what the call of the i-th constituent gives: an error (size -1), always so
\* when the arguments do not bind, or a table of up to MaxTrials rows
OutcomeSizes(fn_name, args, kwargs) ==
    IF BindFails(fn_name, args, kwargs) THEN {-1} ELSE -1..MaxTrials
OutcomeOf(i, n) ==
    IF n < 0 THEN [err |-> "raised", rows |-> <<>>]
    ELSE [err |-> "none", rows |-> TableOf(i, n)]

\* ABRSupersetFile.get_epochs / get_epochs_filtered / get_random_segments /
\* get_random_segments_filtered, i.e. _merge_results(fn_name, *args, **kwargs);
\* the Superset keeps nothing from one fan-out to the next, so one is followed
FanOut ==
    /\ inst.kind = "superset"
    /\ merged = NotFanned
    /\ \E fn_name \in Ops, args \in PosChoices, kwargs \in FanKwChoices,
          refresh_cache \in BOOLEAN :
         \E sizes \in [1..Len(inst.fh) -> OutcomeSizes(fn_name, args, kwargs)] :
           LET outcomes == [i \in 1..Len(inst.fh) |-> OutcomeOf(i, sizes[i])]
           IN  /\ request' = [fn_name |-> fn_name, args |-> args,
                              kwargs |-> kwargs, refresh_cache |-> refresh_cache]
               /\ fanned' = [i \in 1..CalledConstituents(outcomes) |->
                                ConstituentCall(i, fn_name, args, kwargs,
                                                refresh_cache, outcomes[i])]
               /\ merged' = MergeOutcome(outcomes)
    /\ UNCHANGED inst
    /\ SupersetFrame

\* ABRSupersetFile.erp_metadata: every constituent's table, concatenated
SupersetErpMetadata ==
    /\ inst.kind = "superset"
    /\ merged = NotFanned
    /\ LET outcomes == [i \in 1..Len(inst.fh) |->
                           [err |-> "none", rows |-> TableOf(i, inst.fh[i].trials)]]
       IN  /\ request' = [NoRequest EXCEPT !.fn_name = "erp_metadata"]
           /\ fanned' = [i \in 1..Len(inst.fh) |->
                            ConstituentCall(i, "erp_metadata", <<>>, {}, FALSE,
                                            outcomes[i])]
           /\ merged' = MergeOutcome(outcomes)
    /\ UNCHANGED inst
    /\ SupersetFrame

NextSuperset ==
    \/ FromFolder
    \/ FromList
    \/ Load
    \/ IsAbrExperiment
    \/ FanOut
    \/ SupersetErpMetadata

SpecSuperset == InitSuperset /\ [][NextSuperset]_vars

----------------------------------------------------------------------------
(* Properties of construction and fan-out.                                 *)

IsValid(loc) == loc.isdir /\ loc.eeg /\ loc.erp_metadata
Subdirectories(entries) == SelectSeq(entries, LAMBDA e : e.isdir)
ByEnumeration == inst.kind # "none" /\ ~folder.marker /\ inst.via \in {"from_folder", "load"}

\* the error of the first location of locs that is no valid Recording
FirstError(locs) ==
    LET i == CHOOSE k \in 1..Len(locs) :
                 ~IsValid(locs[k]) /\ \A j \in 1..(k - 1) : IsValid(locs[j])
    IN  IF ~locs[i].eeg THEN "ValueError: Missing eeg data"
        ELSE "ValueError: Missing erp metadata"

\* C9 (as stated): construction by directory enumeration succeeds with exactly
\* the subdirectories that are valid Recordings; files and subdirectories
\* whose Recording construction fails are skipped; the explicit-list
\* constructor propagates the first construction error.
C9_EnumerationSkipsInvalid ==
    /\ ByEnumeration =>
           /\ inst.kind = "superset"
           /\ inst.fh = SelectSeq(folder.entries, IsValid)
    /\ (inst.kind # "none" /\ inst.via = "list"
        /\ \E i \in 1..Len(inst.given) : ~IsValid(inst.given[i])) =>
           (inst.kind = "error" /\ inst.error = FirstError(inst.given))

\* C9 (amended): construction by directory enumeration skips the entries that
\* are not directories and builds one Recording per subdirectory, in listing
\* order; like the explicit-list constructor, it propagates the construction
\* error of the first subdirectory that is no valid Recording.
C9_EnumerationPropagatesInvalid ==
    /\ ByEnumeration =>
           IF \A i \in 1..Len(folder.entries) :
                  folder.entries[i].isdir => IsValid(folder.entries[i])
           THEN inst.kind = "superset" /\ inst.fh = Subdirectories(folder.entries)
           ELSE /\ inst.kind = "error"
                /\ inst.error = FirstError(Subdirectories(folder.entries))
    /\ (inst.kind # "none" /\ inst.via = "list") =>
           IF \A i \in 1..Len(inst.given) : IsValid(inst.given[i])
           THEN inst.kind = "superset" /\ inst.fh = inst.given
           ELSE inst.kind = "error" /\ inst.error = FirstError(inst.given)

C9_Witness ==
    /\ ByEnumeration
    /\ inst.via = "from_folder"
    /\ Len(folder.entries) = 2
    /\ IsValid(folder.entries[1])
    /\ folder.entries[2].isdir /\ ~folder.entries[2].erp_metadata
    /\ inst.kind = "error"

RECURSIVE TotalRows(_, _)
\* the sizes of the tables the constituents returned, from the i-th on, added
TotalRows(log, i) ==
    IF i > Len(log) THEN 0 ELSE Len(log[i].outcome.rows) + TotalRows(log, i + 1)

FanOutDone == merged # NotFanned
Constituents == Len(inst.fh)
NoneRaised == \A i \in 1..Len(fanned) : fanned[i].outcome.err = "none"

\* the calls made are those of the constituents 1..n in order, each with the
\* operation and the arguments of the fan-out call
CalledInOrder(n) ==
    /\ Len(fanned) = n
    /\ \A i \in 1..n :
           /\ fanned[i].fh = i
           /\ fanned[i].fn_name = request.fn_name
           /\ fanned[i].args = request.args
           /\ fanned[i].kwargs = request.kwargs
           /\ fanned[i].refresh_cache = request.refresh_cache

\* the merged table holds, under file = i - 1, the rows of the i-th
\* constituent in their order, files ascending, and nothing else
Provenance ==
    /\ merged.err = "none"
    /\ Len(merged.rows) = TotalRows(fanned, 1)
    /\ \A k \in 1..Len(merged.rows) : merged.rows[k].file \in 0..(Constituents - 1)
    /\ \A k \in 1..(Len(merged.rows) - 1) :
           merged.rows[k].file <= merged.rows[k + 1].file
    /\ \A i \in 1..Constituents :
           LET mine == SelectSeq(merged.rows, LAMBDA r : r.file = i - 1)
           IN  [k \in 1..Len(mine) |-> mine[k].row] = fanned[i].outcome.rows

\* C8 (as stated): a fan-out in which no constituent call raises calls every
\* constituent in construction order with the arguments it was given and
\* returns the merged table with its file level, for every number K of
\* constituents.
C8_FanOutProvenance ==
    (FanOutDone /\ NoneRaised) => (CalledInOrder(Constituents) /\ Provenance)

\* C8 (amended): the same for K >= 1; a Superset without constituents raises
\* on fan-out instead of returning an empty table, and when a constituent call
\* raises the error propagates and the later constituents are not called.
C8_FanOutProvenanceNonEmpty ==
    FanOutDone =>
        IF NoneRaised
        THEN /\ CalledInOrder(Constituents)
             /\ IF Constituents = 0
                THEN merged.err = "ValueError: No objects to concatenate"
                ELSE Provenance
        ELSE /\ \E n \in 1..Constituents :
                    /\ CalledInOrder(n)
                    /\ fanned[n].outcome.err # "none"
                    /\ \A i \in 1..(n - 1) : fanned[i].outcome.err = "none"
                    /\ merged.err = fanned[n].outcome.err

C8_Witness ==
    /\ FanOutDone
    /\ Constituents = 2
    /\ request.refresh_cache
    /\ request.fn_name = "get_random_segments"
    /\ merged.err = "none"
    /\ Len(merged.rows) = 2
    /\ merged.rows[2].file = 1

----------------------------------------------------------------------------
(* Calls of the cached operations of one Recording.                        *)

InitCache ==
    /\ erp_row \in RecordingRows
    /\ RejectIdle
    /\ CacheIdle
    /\ SupersetIdle

\* wrapper(self, *args, refresh_cache=False, **kwargs), when binding fails
CallUnbindable(c) ==
    /\ calls < MaxCalls
    /\ c.fails
    /\ calls' = calls + 1
    /\ last' = [NoCall EXCEPT !.op = c.op, !.refresh_cache = c.refresh_cache,
                              !.outcome = "TypeError"]
    /\ UNCHANGED <<cache_dir, cache, invocations, erp_row>>
    /\ UNCHANGED rejectVars
    /\ UNCHANGED supersetVars

\* wrapper(self, *args, refresh_cache=False, **kwargs)
CallCached(c) ==
    /\ calls < MaxCalls
    /\ ~c.fails
    /\ cache_dir' = TRUE
    /\ calls' = calls + 1
    /\ IF Lookup(c.refresh_cache, cache, c.file_name)
       THEN /\ last' = [op |-> c.op, bound |-> c.bound, file_name |-> c.file_name,
                        refresh_cache |-> c.refresh_cache,
                        outcome |-> "hit",
                        result |-> Read(cache, c.file_name).result]
            /\ UNCHANGED <<cache, invocations>>
       ELSE LET raised == OperationRaises(c.op, c.bound, erp_row)
                result == invocations + 1
            IN  /\ invocations' = invocations + 1
                /\ cache' = Store(cache, c.file_name, raised, result, <<c.op, c.bound>>)
                /\ last' = [op |-> c.op, bound |-> c.bound, file_name |-> c.file_name,
                            refresh_cache |-> c.refresh_cache,
                            outcome |-> IF raised THEN "raised" ELSE "computed",
                            result |-> IF raised THEN 0 ELSE result]
    /\ UNCHANGED erp_row
    /\ UNCHANGED rejectVars
    /\ UNCHANGED supersetVars

NextCache ==
    \/ \E i \in DOMAIN Resolved : CallUnbindable(Resolved[i].as)
    \/ \E i \in DOMAIN Resolved : CallCached(Resolved[i].as)

SpecCache == InitCache /\ [][NextCache]_vars

----------------------------------------------------------------------------
(* Properties of the call cache.                                           *)

\* a == b in Python
PyEq(a, b) == a = b \/ (IsInfinite(a) /\ IsInfinite(b))

\* the same operation with the same effective (post-default) arguments
SameCall(x, y) ==
    /\ x[1] = y[1]
    /\ \A i \in 1..Len(x[2]) : PyEq(x[2][i], y[2][i])

\* a wrapper call that got past argument binding has just been made
BoundCallStep == calls' = calls + 1 /\ last'.outcome # "TypeError"

\* C1: a call with the same effective arguments as the call that wrote an
\* entry resolves to that entry and, without refresh_cache, does not invoke the
\* operation again; a call whose effective arguments differ from those of the
\* call that wrote an entry resolves to another entry, and a call that differs
\* from the writers of all entries causes a fresh invocation.
C1_CacheDeterminism ==
    [][BoundCallStep =>
        LET me == <<last'.op, last'.bound>> IN
        /\ \A e \in cache : SameCall(e.by, me) => e.file_name = last'.file_name
        /\ (~last'.refresh_cache /\ \E e \in cache : SameCall(e.by, me)) =>
               invocations' = invocations
        /\ \A e \in cache : ~SameCall(e.by, me) => e.file_name # last'.file_name
        /\ (\A e \in cache : ~SameCall(e.by, me)) =>
               invocations' = invocations + 1]_vars

\* C2: a call that finds no entry under its file name, or is made with
\* refresh_cache, invokes the operation exactly once, and when that returns the
\* result is written to that entry only (the cache directory existing by then)
\* and returned; any other call returns the stored result, which is the one of
\* the latest such invocation, without invoking the operation.
C2_MissOrRefreshStoresAndReturns ==
    [][BoundCallStep =>
        LET name == last'.file_name IN
        IF ~Exists(cache, name) \/ last'.refresh_cache
        THEN /\ invocations' = invocations + 1
             /\ cache_dir'
             /\ last'.outcome \in {"computed", "raised"}
             /\ last'.outcome = "computed" =>
                   /\ last'.result = invocations'
                   /\ \A e \in cache : e.result < last'.result
                   /\ Exists(cache', name)
                   /\ Read(cache', name).result = last'.result
                   /\ {e \in cache' : e.file_name # name}
                          = {e \in cache : e.file_name # name}
                   /\ Cardinality({e \in cache' : e.file_name = name}) = 1
        ELSE /\ invocations' = invocations
             /\ last'.outcome = "hit"
             /\ last'.result = Read(cache, name).result
             /\ cache' = cache]_vars

C2_Witness ==
    /\ last.outcome = "hit"
    /\ invocations = 2
    /\ last.result = 2
    /\ Cardinality(cache) = 1

\* C10: when the invoked operation raises, the error reaches the caller and
\* the cache files are left as they were; a file appears or changes only by a
\* call whose invocation returned, and then holds that call's result.
C10_FailedCallNotCached ==
    [][calls' = calls + 1 =>
        /\ (invocations' = invocations + 1
            /\ OperationRaises(last'.op, last'.bound, erp_row)) =>
               last'.outcome = "raised"
        /\ last'.outcome \in {"raised", "TypeError"} => cache' = cache
        /\ \A e \in cache' \ cache :
               /\ last'.outcome = "computed"
               /\ e.file_name = last'.file_name
               /\ e.result = last'.result]_vars

C10_Witness ==
    /\ last.outcome = "raised"
    /\ last.refresh_cache
    /\ Exists(cache, last.file_name)

----------------------------------------------------------------------------
(* Inputs of the rejection filter.                                         *)

MaxRows == 2
Columns == {"t0", "t1"}
Samples == {Fin(-2), Fin(2), NaN, PosInf}
Rows == [Columns -> Samples]
Tables == UNION {[1..n -> Rows] : n \in 0..MaxRows}
FiniteThresholds == {PyInt(2), PyInt(3)}
ThresholdArgs == {PyNone, NpInf, OtherInf} \cup FiniteThresholds
ModeArgs == {PyStr("absolute"), PyStr("amplitude")}
\* values read out of the metadata table are fresh float objects, never np.inf
MetaRows ==
    {NoRow} \cup
    [reject_threshold : FiniteThresholds \cup {OtherInf},
     reject_mode : {Absent} \cup ModeArgs]

InitReject ==
    /\ epochs \in Tables
    /\ reject_threshold \in ThresholdArgs
    /\ reject_mode \in ModeArgs
    /\ erp_row \in MetaRows
    /\ rejected = Pending
    /\ CacheIdle
    /\ SupersetIdle

CallApplyReject ==
    /\ rejected = Pending
    /\ rejected' = ApplyReject(epochs, reject_threshold, reject_mode, erp_row)
    /\ UNCHANGED <<epochs, reject_threshold, reject_mode, erp_row>>
    /\ UNCHANGED cacheVars
    /\ UNCHANGED supersetVars

NextReject == CallApplyReject

SpecReject == InitReject /\ [][NextReject]_vars

----------------------------------------------------------------------------
(* Properties of the rejection filter.                                     *)

\* the call has returned or raised
RejectDone == rejected # Pending

\* the threshold is passed, or the metadata has a first row to fall back to
Resolvable == reject_threshold # PyNone \/ erp_row # NoRow

\* the threshold and mode the filter ends up using
ResolvedThreshold ==
    IF reject_threshold = PyNone THEN erp_row.reject_threshold ELSE reject_threshold
ResolvedMode ==
    IF reject_threshold = PyNone THEN RowRejectMode(erp_row) ELSE reject_mode

AllPositions == [i \in 1..Len(epochs) |-> i]
HasMissing(row) == \E c \in DOMAIN row : row[c][1] = "nan"

\* cell >= t for a finite threshold t
SampleAtLeast(x, t) ==
    CASE x[1] = "nan" -> FALSE
      [] x[1] = "pinf" -> TRUE
      [] x[1] = "fin" -> x[2] >= t[2]

\* |cell| < t for a finite threshold t
MagnitudeBelow(x, t) == x[1] = "fin" /\ x[2] < t[2] /\ -x[2] < t[2]

\* C3 (as stated): with the threshold unspecified and T in the first metadata
\* row, the outcome equals that of passing T explicitly, whatever reject_mode
\* argument is given.
C3_FallbackEqualsExplicitAnyMode ==
    (RejectDone /\ reject_threshold = PyNone /\ erp_row # NoRow) =>
        rejected = ApplyReject(epochs, erp_row.reject_threshold, reject_mode, erp_row)

\* C3 (amended): with the threshold unspecified, the outcome equals that of
\* passing the stored threshold T together with the stored mode (reject_mode of
\* the first metadata row, "absolute" when the column is absent); the caller's
\* reject_mode argument is ignored.
C3_FallbackEqualsExplicitStoredMode ==
    (RejectDone /\ reject_threshold = PyNone /\ erp_row # NoRow) =>
        rejected = ApplyReject(epochs, erp_row.reject_threshold,
                               RowRejectMode(erp_row), erp_row)

C3_Witness ==
    /\ RejectDone /\ reject_threshold = PyNone /\ erp_row # NoRow
    /\ reject_mode # RowRejectMode(erp_row)
    /\ rejected.err = "none"
    /\ Len(rejected.keep) = 1 /\ Len(epochs) = 2

\* C4 (as stated): every application with reject_mode = "amplitude" ends in a
\* not-implemented error, for every table and every threshold.
C4_AmplitudeAlwaysFails ==
    (RejectDone /\ Resolvable /\ reject_mode = PyStr("amplitude")) =>
        rejected.err = "NotImplementedError"

\* C4 (amended): an application ends in a not-implemented error exactly when
\* the resolved mode is "amplitude" and the resolved threshold is not the
\* np.inf object; it never filters like absolute mode in that case.
C4_AmplitudeFailsUnlessNpInf ==
    RejectDone =>
        (rejected.err = "NotImplementedError" <=>
            (Resolvable /\ ResolvedMode = PyStr("amplitude")
                        /\ ~IsNpInf(ResolvedThreshold)))

C4_Witness ==
    /\ RejectDone /\ reject_mode = PyStr("amplitude")
    /\ reject_threshold \in FiniteThresholds
    /\ Len(epochs) = 2
    /\ rejected.err = "NotImplementedError"

\* C5: the filter never increases the row count, and whenever the resolved
\* threshold is infinite (any representation, any mode) the output is exactly
\* the input rows without a missing sample.
C5_InfiniteThresholdSkipsRejection ==
    RejectDone =>
        /\ Len(rejected.keep) <= Len(epochs)
        /\ (Resolvable /\ IsInfinite(ResolvedThreshold)) =>
               (rejected.err = "none" /\ rejected.keep = DropNa(epochs))

\* C6: on a table without missing samples, absolute mode with a finite
\* threshold T removes exactly the rows holding a sample >= T and keeps the
\* others in their original order.
C6_AbsoluteRemovesAtLeastT ==
    (/\ RejectDone /\ Resolvable
     /\ \A i \in 1..Len(epochs) : ~HasMissing(epochs[i])
     /\ ResolvedThreshold \in FiniteThresholds
     /\ ResolvedMode = PyStr("absolute")) =>
        /\ rejected.err = "none"
        /\ rejected.keep =
              SelectSeq(AllPositions,
                        LAMBDA i : ~\E c \in DOMAIN epochs[i] :
                                       SampleAtLeast(epochs[i][c], ResolvedThreshold))

C6_Witness ==
    /\ RejectDone /\ reject_threshold = PyInt(2)
    /\ reject_mode = PyStr("absolute")
    /\ Len(epochs) = 2
    /\ \A i \in 1..2 : ~HasMissing(epochs[i])
    /\ \E c \in Columns : epochs[1][c] = Fin(2)
    /\ rejected.keep = <<2>>

\* C7: absolute mode with a finite threshold T keeps only rows whose samples
\* all have magnitude strictly below T (a sample <= -T drops the row).
C7_AbsoluteRejectsOnMagnitude ==
    (/\ RejectDone /\ Resolvable
     /\ ResolvedThreshold \in FiniteThresholds
     /\ ResolvedMode = PyStr("absolute")) =>
        /\ rejected.err = "none"
        /\ \A k \in 1..Len(rejected.keep) :
              \A c \in Columns :
                  MagnitudeBelow(epochs[rejected.keep[k]][c], ResolvedThreshold)

====
